---- MODULE Spec2Model ----
(***************************************************************************)
(* Model of package tmx (fardog/tmx): the layer decode pipeline            *)
(*   Layer.TileGlobalRefs / Layer.TileDefs          (main.go)              *)
(*   Data.Bytes / Data.decodeB64Data                (main.go)              *)
(*   decodeB64LayerData / decodeCSVLayerData        (decode file)          *)
(*   GlobalID.BareID / TileID / IsFlipped*          (main.go)              *)
(*                                                                         *)
(* A uint32 is the record [hi, lo] of its two 16-bit halves, so that every *)
(* 32-bit value is exact although the checker's integers are 32-bit signed.*)
(* A Go slice is the record [isNil, elems]; a []byte is a sequence of      *)
(* numbers 0..255; a string tag is a string.                               *)
(***************************************************************************)
EXTENDS Integers, Sequences, FiniteSets, TLC

(* ------------------------------ bounds -------------------------------- *)
\* longest structured reference list (<tile gid=.../> children) of a layer
MaxRefs == 2
\* longest tile-set collection a caller holds
MaxTileSets == 2

(* --------------------------- uint32 words ----------------------------- *)
\* 2^16: the radix of the two halves of a uint32
Half == 65536

U32(h, l) == [hi |-> h, lo |-> l]

Zero32 == U32(0, 0)

RECURSIVE BitAnd(_, _)
\* x & y on naturals
BitAnd(x, y) ==
    IF x = 0 \/ y = 0 THEN 0
    ELSE (x % 2) * (y % 2) + 2 * BitAnd(x \div 2, y \div 2)

RECURSIVE BitOr(_, _)
\* x | y on naturals
BitOr(x, y) ==
    IF x = 0 THEN y
    ELSE IF y = 0 THEN x
    ELSE (IF x % 2 = 1 \/ y % 2 = 1 THEN 1 ELSE 0) + 2 * BitOr(x \div 2, y \div 2)

RECURSIVE BitXor(_, _)
\* x ^ y on naturals
BitXor(x, y) ==
    IF x = 0 THEN y
    ELSE IF y = 0 THEN x
    ELSE ((x + y) % 2) + 2 * BitXor(x \div 2, y \div 2)

\* a & b on uint32
And32(a, b) == U32(BitAnd(a.hi, b.hi), BitAnd(a.lo, b.lo))

\* a | b on uint32
Or32(a, b) == U32(BitOr(a.hi, b.hi), BitOr(a.lo, b.lo))

\* a &^ b on uint32 (Go's AND NOT): a minus the bits a shares with b
AndNot32(a, b) == U32(a.hi - BitAnd(a.hi, b.hi), a.lo - BitAnd(a.lo, b.lo))

\* a < b on uint32
Less32(a, b) == a.hi < b.hi \/ (a.hi = b.hi /\ a.lo < b.lo)

\* a - b on uint32, wrapping modulo 2^32 as Go's unsigned subtraction does
Sub32(a, b) ==
    LET borrow == IF a.lo < b.lo THEN 1 ELSE 0
    IN  U32((a.hi - b.hi - borrow) % Half, (a.lo - b.lo) % Half)

(* --------------------------- GlobalID codec --------------------------- *)
TileFlippedHorizontally == U32(32768, 0)    \* 0x80000000
TileFlippedVertically   == U32(16384, 0)    \* 0x40000000
TileFlippedDiagonally   == U32(8192, 0)     \* 0x20000000
TileFlipped ==
    Or32(Or32(TileFlippedHorizontally, TileFlippedVertically), TileFlippedDiagonally)

IsFlippedHorizontally(g) == And32(g, TileFlippedHorizontally) # Zero32

\* fault: the vertical test reads the diagonal bit
IsFlippedVerticallyDiagonalMask(g) == And32(g, TileFlippedDiagonally) # Zero32

IsFlippedVertically(g) == And32(g, TileFlippedVertically) # Zero32

IsFlippedDiagonally(g) == And32(g, TileFlippedDiagonally) # Zero32

\* fault: the mask leaves the diagonal bit in the bare id
BareIDKeepsDiagonal(g) ==
    AndNot32(g, Or32(TileFlippedHorizontally, TileFlippedVertically))

BareID(g) == AndNot32(g, TileFlipped)

\* fault: the operands of the subtraction are swapped
TileIDSwapped(g, first) == Sub32(first, BareID(g))

\* GlobalID.TileID(t): the argument is the tile-set's FirstGlobalID
TileID(g, first) == Sub32(BareID(g), first)

(* ------------------------------ Go slices ----------------------------- *)
\* the nil slice: `var xs []T`
NilSlice == [isNil |-> TRUE, elems |-> <<>>]

\* append(s, e): appending to a nil slice allocates, so the result is never nil
GoAppend(s, e) == [isNil |-> FALSE, elems |-> Append(s.elems, e)]

\* a slice holding the elements of a non-empty sequence; nil for the empty one
\* (what encoding/xml leaves in a []T field that met no element)
SliceOf(q) == IF q = <<>> THEN NilSlice ELSE [isNil |-> FALSE, elems |-> q]

(* -------------------------------- errors ------------------------------- *)
NoErr == "nil"
ErrUnsupportedEncoding == "ErrUnsupportedEncoding"
ErrUnsupportedCompression == "ErrUnsupportedCompression"
ErrNoSuitableTileSet == "ErrNoSuitableTileSet"
\* the error values the code builds in place or gets from the standard library
ErrorfNoSuitableTileSet == "fmt.Errorf(no suitable tileset found for tile with global ID)"
ErrorfNotDivisibleBy4 == "fmt.Errorf(expected byte array to be divisible by 4)"
ErrParseUint == "strconv.NumError"
ErrBase64 == "base64.CorruptInputError"
ErrUnexpectedEOF == "io.ErrUnexpectedEOF"
ErrZlibHeader == "zlib.ErrHeader"
ErrZlibChecksum == "zlib.ErrChecksum"
ErrGzipHeader == "gzip.ErrHeader"
ErrGzipChecksum == "gzip.ErrChecksum"
ErrFlateCorrupt == "flate.CorruptInputError"

(* ------------------------------ tile-sets ------------------------------ *)
\* TileSet: the fields the pipeline reads. Tiles is the list of the TileIDs
\* of the tile-set's <tile> children (its per-tile metadata).
TileSet(name, first, count, tiles) ==
    [Name |-> name, FirstGlobalID |-> first, TileCount |-> count, Tiles |-> tiles]

\* *TileSet: &tss[idx] of the caller's array arr; arr = 0 is the nil pointer
NilTileSetPtr == [arr |-> 0, idx |-> 0]

\* *Tile: &t.Tiles[idx] of the tile-set named ts; idx = 0 is the nil pointer
NilTilePtr == [ts |-> "", idx |-> 0]

RECURSIVE TileWithIDFrom(_, _, _)
\* the loop of TileSet.TileWithID, from index i
TileWithIDFrom(t, id, i) ==
    IF i > Len(t.Tiles) THEN NilTilePtr
    ELSE IF t.Tiles[i] = id THEN [ts |-> t.Name, idx |-> i]
    ELSE TileWithIDFrom(t, id, i + 1)

TileWithID(t, id) == TileWithIDFrom(t, id, 1)

\* byFirstGlobalID.Less on two elements
Less(x, y) == Less32(x.FirstGlobalID, y.FirstGlobalID)

\* fault: the collection is scanned as it was passed, without sorting it
SortOutcomesUnsorted(tss) == {tss}

\* the orders sort.Sort(byFirstGlobalID(tss)) may leave tss in: sort.Sort is
\* not stable, so every ascending permutation of the elements is possible
SortOutcomes(tss) ==
    LET n == Len(tss)
        perms == {p \in [1..n -> 1..n] : \A i, j \in 1..n : i # j => p[i] # p[j]}
        arranged == {[i \in 1..n |-> tss[p[i]]] : p \in perms}
    IN  {q \in arranged : \A i \in 1..n : \A j \in 1..n : i < j => ~Less(q[j], q[i])}

(* ------------------------------ TileDef -------------------------------- *)
TileDef(nil, id, gid, ts, tile, h, v, d) ==
    [Nil |-> nil, ID |-> id, GlobalID |-> gid, TileSet |-> ts, Tile |-> tile,
     HorizontallyFlipped |-> h, VerticallyFlipped |-> v, DiagonallyFlipped |-> d]

\* &TileDef{Nil: true}: every other field keeps its zero value
NilTileDef ==
    TileDef(TRUE, Zero32, Zero32, NilTileSetPtr, NilTilePtr, FALSE, FALSE, FALSE)

RECURSIVE FindTileSetFrom(_, _, _, _)
\* the inner loop of Layer.TileDefs from index i, ts being the index found so
\* far (0 is the nil pointer): it breaks at the first tile-set above bid
FindTileSetFrom(tss, bid, i, ts) ==
    IF i > Len(tss) THEN ts
    ELSE IF Less32(bid, tss[i].FirstGlobalID) THEN ts
    ELSE FindTileSetFrom(tss, bid, i + 1, i)

FindTileSet(tss, bid) == FindTileSetFrom(tss, bid, 1, 0)

\* the TileDef Layer.TileDefs appends for a reference that found &tss[ts] of
\* array arr
HydrateTileDef(gid, tss, arr, ts) ==
    LET id == TileID(gid, tss[ts].FirstGlobalID)
    IN  TileDef(FALSE, id, gid, [arr |-> arr, idx |-> ts], TileWithID(tss[ts], id),
                IsFlippedHorizontally(gid), IsFlippedVertically(gid),
                IsFlippedDiagonally(gid))

RECURSIVE ResolveFrom(_, _, _, _, _)
\* the outer loop of Layer.TileDefs from the i-th reference, tds being the
\* named result so far; the result is what the function returns
ResolveFrom(tgrs, tss, arr, i, tds) ==
    IF i > Len(tgrs) THEN [tds |-> tds, err |-> NoErr]
    ELSE LET gid == tgrs[i].GlobalID
             bid == BareID(gid)
             ts == FindTileSet(tss, bid)
         IN  IF bid = Zero32
             THEN ResolveFrom(tgrs, tss, arr, i + 1, GoAppend(tds, NilTileDef))
             ELSE IF ts = 0
             THEN [tds |-> tds, err |-> ErrorfNoSuitableTileSet]
             ELSE ResolveFrom(tgrs, tss, arr, i + 1,
                              GoAppend(tds, HydrateTileDef(gid, tss, arr, ts)))

(* --------------------------- byte sequences ---------------------------- *)
\* the ASCII white space bytes.TrimSpace and strings.TrimSpace remove:
\* \t \n \v \f \r and the space
IsSpace(c) == c \in {9, 10, 11, 12, 13, 32}

RECURSIVE TrimLeft(_)
TrimLeft(b) ==
    IF b # <<>> /\ IsSpace(Head(b)) THEN TrimLeft(Tail(b)) ELSE b

RECURSIVE TrimRight(_)
TrimRight(b) ==
    IF b # <<>> /\ IsSpace(b[Len(b)]) THEN TrimRight(SubSeq(b, 1, Len(b) - 1)) ELSE b

\* bytes.TrimSpace / strings.TrimSpace
TrimSpace(b) == TrimRight(TrimLeft(b))

\* b[from:] in Go's 0-based slicing is the suffix after the first `from` bytes
Skip(b, from) == SubSeq(b, from + 1, Len(b))

(* ------------------------- encoding/base64 ----------------------------- *)
\* the value of a character of the standard alphabet, -1 for any other byte
B64Val(c) ==
    IF c >= 65 /\ c <= 90 THEN c - 65              \* 'A'..'Z'
    ELSE IF c >= 97 /\ c <= 122 THEN c - 97 + 26   \* 'a'..'z'
    ELSE IF c >= 48 /\ c <= 57 THEN c - 48 + 52    \* '0'..'9'
    ELSE IF c = 43 THEN 62                         \* '+'
    ELSE IF c = 47 THEN 63                         \* '/'
    ELSE -1

\* '='
B64Pad == 61

RECURSIVE DropNewlines(_)
\* base64.NewDecoder reads through a filter that drops \r and \n
DropNewlines(b) ==
    IF b = <<>> THEN <<>>
    ELSE IF Head(b) \in {10, 13} THEN DropNewlines(Tail(b))
    ELSE <<Head(b)>> \o DropNewlines(Tail(b))

RECURSIVE B64Quanta(_, _)
\* the decoder over 4-character quanta of b, acc being the bytes decoded so
\* far: [data, err]
B64Quanta(b, acc) ==
    IF b = <<>> THEN [data |-> acc, err |-> NoErr]
    ELSE IF Len(b) < 4
    THEN [data |-> acc,
          err |-> IF \E i \in 1..Len(b) : B64Val(b[i]) < 0 /\ b[i] # B64Pad
                  THEN ErrBase64 ELSE ErrUnexpectedEOF]
    ELSE LET v1 == B64Val(b[1])
             v2 == B64Val(b[2])
             v3 == B64Val(b[3])
             v4 == B64Val(b[4])
             b1 == v1 * 4 + (v2 \div 16)
             b2 == (v2 % 16) * 16 + (v3 \div 4)
             b3 == (v3 % 4) * 64 + v4
         IN  IF v1 < 0 \/ v2 < 0 THEN [data |-> acc, err |-> ErrBase64]
             ELSE IF v3 >= 0 /\ v4 >= 0
             THEN B64Quanta(Skip(b, 4), acc \o <<b1, b2, b3>>)
             ELSE IF v3 >= 0 /\ b[4] = B64Pad /\ Len(b) = 4
             THEN [data |-> acc \o <<b1, b2>>, err |-> NoErr]
             ELSE IF b[3] = B64Pad /\ b[4] = B64Pad /\ Len(b) = 4
             THEN [data |-> acc \o <<b1>>, err |-> NoErr]
             ELSE [data |-> acc, err |-> ErrBase64]

\* reading base64.NewDecoder(base64.StdEncoding, r) to its end: [data, err]
Base64Decode(b) == B64Quanta(DropNewlines(b), <<>>)

(* -------------------------- compress/flate ----------------------------- *)
\* the marker of a Huffman-coded block: the payloads of this model hold
\* stored blocks only
HuffmanBlock == "flate: huffman-coded block"

RECURSIVE Inflate(_, _)
\* a DEFLATE stream of stored blocks (RFC 1951, BTYPE 00), acc being the
\* output so far: [data, rest, err], rest the bytes after the final block
Inflate(b, acc) ==
    IF b = <<>> THEN [data |-> acc, rest |-> <<>>, err |-> ErrUnexpectedEOF]
    ELSE LET final == b[1] % 2
             btype == (b[1] \div 2) % 4
         IN  IF btype = 3 THEN [data |-> acc, rest |-> <<>>, err |-> ErrFlateCorrupt]
             ELSE IF btype # 0 THEN [data |-> acc, rest |-> <<>>, err |-> HuffmanBlock]
             ELSE IF Len(b) < 5 THEN [data |-> acc, rest |-> <<>>, err |-> ErrUnexpectedEOF]
             ELSE LET n == b[2] + 256 * b[3]
                      nn == b[4] + 256 * b[5]
                  IN  IF nn # 65535 - n
                      THEN [data |-> acc, rest |-> <<>>, err |-> ErrFlateCorrupt]
                      ELSE IF Len(b) < 5 + n
                      THEN [data |-> acc \o Skip(b, 5), rest |-> <<>>,
                            err |-> ErrUnexpectedEOF]
                      ELSE IF final = 1
                      THEN [data |-> acc \o SubSeq(b, 6, 5 + n), rest |-> Skip(b, 5 + n),
                            err |-> NoErr]
                      ELSE Inflate(Skip(b, 5 + n), acc \o SubSeq(b, 6, 5 + n))

(* --------------------------- compress/zlib ----------------------------- *)
\* the largest prime below 2^16, the modulus of Adler-32
AdlerMod == 65521

RECURSIVE Adler32(_, _, _)
\* Adler-32 of b from the sums a and s: the word s<<16 | a
Adler32(b, a, s) ==
    IF b = <<>> THEN U32(s, a)
    ELSE LET a2 == (a + Head(b)) % AdlerMod
         IN  Adler32(Tail(b), a2, (s + a2) % AdlerMod)

\* the big-endian uint32 of the first four bytes of b
BigEndian32(b) == U32(b[1] * 256 + b[2], b[3] * 256 + b[4])

\* the little-endian uint32 of the first four bytes of b:
\* binary.LittleEndian.Uint32
LittleEndian32(b) == U32(b[3] + 256 * b[4], b[1] + 256 * b[2])

\* the end of a zlib stream whose DEFLATE part gave r: the Adler-32 of the
\* output, big-endian
ZlibTrailer(r) ==
    IF r.err # NoErr THEN [data |-> r.data, err |-> r.err]
    ELSE IF Len(r.rest) < 4 THEN [data |-> r.data, err |-> ErrUnexpectedEOF]
    ELSE IF BigEndian32(r.rest) # Adler32(r.data, 1, 0)
    THEN [data |-> r.data, err |-> ErrZlibChecksum]
    ELSE [data |-> r.data, err |-> NoErr]

\* zlib.NewReader on b followed by ioutil.ReadAll: [data, err]
ZlibRead(b) ==
    IF Len(b) < 2 THEN [data |-> <<>>, err |-> ErrUnexpectedEOF]
    ELSE IF b[1] % 16 # 8 \/ b[1] \div 16 > 7 \/ (b[1] * 256 + b[2]) % 31 # 0
    THEN [data |-> <<>>, err |-> ErrZlibHeader]
    ELSE IF (b[2] \div 32) % 2 = 1
    THEN [data |-> <<>>, err |-> "zlib.ErrDictionary"]
    ELSE ZlibTrailer(Inflate(Skip(b, 2), <<>>))

(* --------------------------- compress/gzip ----------------------------- *)
\* c >> 1 on uint32
ShiftRight32(c) == U32(c.hi \div 2, (c.lo \div 2) + (c.hi % 2) * 32768)

\* c ^ 0xEDB88320, the reflected polynomial of CRC-32 (IEEE)
XorPoly(c) == U32(BitXor(c.hi, 60856), BitXor(c.lo, 33568))

RECURSIVE CrcBits(_, _)
\* k steps of the bit-wise CRC-32
CrcBits(c, k) ==
    IF k = 0 THEN c
    ELSE IF c.lo % 2 = 1 THEN CrcBits(XorPoly(ShiftRight32(c)), k - 1)
    ELSE CrcBits(ShiftRight32(c), k - 1)

RECURSIVE CrcBytes(_, _)
\* the CRC-32 register c after the bytes of b
CrcBytes(b, c) ==
    IF b = <<>> THEN c
    ELSE CrcBytes(Tail(b), CrcBits(U32(c.hi, BitXor(c.lo, Head(b))), 8))

\* crc32.ChecksumIEEE
Crc32(b) ==
    LET c == CrcBytes(b, U32(65535, 65535))
    IN  U32(65535 - c.hi, 65535 - c.lo)

\* the end of a gzip member whose DEFLATE part gave r: the CRC-32 and the
\* length of the output, little-endian, and then the end of the input
GzipTrailer(r) ==
    IF r.err # NoErr THEN [data |-> r.data, err |-> r.err]
    ELSE IF Len(r.rest) < 8 THEN [data |-> r.data, err |-> ErrUnexpectedEOF]
    ELSE IF LittleEndian32(r.rest) # Crc32(r.data)
            \/ LittleEndian32(Skip(r.rest, 4)) # U32(0, Len(r.data))
    THEN [data |-> r.data, err |-> ErrGzipChecksum]
    ELSE IF Len(r.rest) > 8 THEN [data |-> r.data, err |-> ErrGzipHeader]
    ELSE [data |-> r.data, err |-> NoErr]

\* gzip.NewReader on b followed by ioutil.ReadAll, for members without the
\* optional header fields (FLG = 0): [data, err]
GzipRead(b) ==
    IF b = <<>> THEN [data |-> <<>>, err |-> "io.EOF"]
    ELSE IF Len(b) < 10 THEN [data |-> <<>>, err |-> ErrUnexpectedEOF]
    ELSE IF b[1] # 31 \/ b[2] # 139 \/ b[3] # 8
    THEN [data |-> <<>>, err |-> ErrGzipHeader]
    ELSE IF b[4] # 0 THEN [data |-> <<>>, err |-> "gzip: optional header fields"]
    ELSE GzipTrailer(Inflate(Skip(b, 10), <<>>))

(* ------------------------------- Data ---------------------------------- *)
\* Data: the encoding and compression attributes, the <tile> children (a
\* slice of TileGlobalRef) and the inner XML
Data(encoding, compression, refs, raw) ==
    [Encoding |-> encoding, Compression |-> compression,
     TileGlobalRefs |-> refs, RawBytes |-> raw]

TileGlobalRef(gid) == [GlobalID |-> gid]

\* the switch of Data.decodeB64Data on the compression tag and the
\* ioutil.ReadAll that follows, dec being what the base64 decoder yields:
\* [data, err]. The readers are lazy: an unknown tag returns before a byte of
\* the payload is decoded. A payload is either base64 throughout or not at
\* all, so a base64 error is met by whichever reader pulls the bytes.
ReadThrough(compression, dec) ==
    CASE compression = "zlib" ->
             IF dec.err # NoErr THEN [data |-> <<>>, err |-> dec.err]
             ELSE ZlibRead(dec.data)
      [] compression = "gzip" ->
             IF dec.err # NoErr THEN [data |-> <<>>, err |-> dec.err]
             ELSE GzipRead(dec.data)
      [] compression = "" -> dec
      [] OTHER -> [data |-> <<>>, err |-> ErrUnsupportedCompression]

\* fault: the gzip case is missing from the switch
ReadThroughNoGzip(compression, dec) ==
    CASE compression = "zlib" ->
             IF dec.err # NoErr THEN [data |-> <<>>, err |-> dec.err]
             ELSE ZlibRead(dec.data)
      [] compression = "" -> dec
      [] OTHER -> [data |-> <<>>, err |-> ErrUnsupportedCompression]

decodeB64DataNoGzip(d) ==
    ReadThroughNoGzip(d.Compression, Base64Decode(TrimSpace(d.RawBytes)))

\* Data.decodeB64Data: [data, err]
decodeB64Data(d) == ReadThrough(d.Compression, Base64Decode(TrimSpace(d.RawBytes)))

\* Data.Bytes: [data, err]
Bytes(d) ==
    CASE d.Encoding = "base64" -> decodeB64Data(d)
      [] d.Encoding = "csv" -> [data |-> d.RawBytes, err |-> NoErr]
      [] d.Encoding = "" -> [data |-> d.RawBytes, err |-> NoErr]
      [] OTHER -> [data |-> <<>>, err |-> ErrUnsupportedEncoding]

RECURSIVE B64Words(_, _)
\* the loop of decodeB64LayerData: uis is a []uint32
B64Words(b, uis) ==
    IF b = <<>> THEN uis
    ELSE B64Words(Skip(b, 4), GoAppend(uis, LittleEndian32(b)))

\* fault: a trailing group of fewer than four bytes is dropped without an
\* error
decodeB64LayerDataTruncates(b) ==
    [uis |-> B64Words(SubSeq(b, 1, Len(b) - (Len(b) % 4)), NilSlice), err |-> NoErr]

\* decodeB64LayerData: [uis, err]
decodeB64LayerData(b) ==
    IF Len(b) % 4 # 0 THEN [uis |-> NilSlice, err |-> ErrorfNotDivisibleBy4]
    ELSE [uis |-> B64Words(b, NilSlice), err |-> NoErr]

RECURSIVE Split(_, _)
\* strings.Split(b, sep) for a one-byte separator: the fields, at least one
Split(b, sep) ==
    IF \A i \in 1..Len(b) : b[i] # sep THEN <<b>>
    ELSE LET k == CHOOSE i \in 1..Len(b) :
                      b[i] = sep /\ \A j \in 1..(i - 1) : b[j] # sep
         IN  <<SubSeq(b, 1, k - 1)>> \o Split(Skip(b, k), sep)

\* ','
Comma == 44

RECURSIVE ParseDigits(_, _)
\* the digit loop of strconv.ParseUint(s, 10, 32), n being the value so far:
\* [n, err]; a byte that is no digit is a syntax error, a value above 2^32-1
\* a range error
ParseDigits(b, n) ==
    IF b = <<>> THEN [n |-> n, err |-> NoErr]
    ELSE IF Head(b) < 48 \/ Head(b) > 57 THEN [n |-> Zero32, err |-> ErrParseUint]
    ELSE LET lo10 == n.lo * 10 + (Head(b) - 48)
             hi10 == n.hi * 10 + (lo10 \div Half)
         IN  IF hi10 >= Half THEN [n |-> U32(65535, 65535), err |-> ErrParseUint]
             ELSE ParseDigits(Tail(b), U32(hi10, lo10 % Half))

\* strconv.ParseUint(s, 10, 32): [n, err]
ParseUint(b) ==
    IF b = <<>> THEN [n |-> Zero32, err |-> ErrParseUint]
    ELSE ParseDigits(b, Zero32)

RECURSIVE CSVFieldsSkipsBad(_, _, _)
\* fault: a field that does not parse is left out and the loop goes on
CSVFieldsSkipsBad(strs, i, uis) ==
    IF i > Len(strs) THEN [uis |-> uis, err |-> NoErr]
    ELSE LET r == ParseUint(TrimSpace(strs[i]))
         IN  IF r.err # NoErr THEN CSVFieldsSkipsBad(strs, i + 1, uis)
             ELSE CSVFieldsSkipsBad(strs, i + 1, GoAppend(uis, r.n))

RECURSIVE CSVFields(_, _, _)
\* the loop of decodeCSVLayerData from the i-th field
CSVFields(strs, i, uis) ==
    IF i > Len(strs) THEN [uis |-> uis, err |-> NoErr]
    ELSE LET r == ParseUint(TrimSpace(strs[i]))
         IN  IF r.err # NoErr THEN [uis |-> NilSlice, err |-> r.err]
             ELSE CSVFields(strs, i + 1, GoAppend(uis, r.n))

\* decodeCSVLayerData: [uis, err]
decodeCSVLayerData(b) == CSVFields(Split(b, Comma), 1, NilSlice)

(* ------------------------------- Layer --------------------------------- *)
RECURSIVE WrapRefs(_, _, _)
\* the loop of Layer.TileGlobalRefs that wraps each uint32 as a reference
WrapRefs(uis, i, trs) ==
    IF i > Len(uis) THEN trs
    ELSE WrapRefs(uis, i + 1, GoAppend(trs, TileGlobalRef(uis[i])))

\* the end of the decoding half of Layer.TileGlobalRefs, uis being what the
\* layer-data decoder returned: [ret, err]
WrapDecoded(uis) ==
    IF uis.err # NoErr THEN [ret |-> NilSlice, err |-> uis.err]
    ELSE [ret |-> WrapRefs(uis.uis.elems, 1, NilSlice), err |-> NoErr]

\* fault: the default case of the switch decodes the payload as csv
DecodeBytesDefaultCsv(encoding, bytes) ==
    IF bytes.err # NoErr THEN [ret |-> NilSlice, err |-> bytes.err]
    ELSE CASE encoding = "base64" -> WrapDecoded(decodeB64LayerData(bytes.data))
           [] OTHER -> WrapDecoded(decodeCSVLayerData(bytes.data))

\* the switch of Layer.TileGlobalRefs on the encoding tag, bytes being what
\* Data.Bytes returned: [ret, err]
DecodeBytes(encoding, bytes) ==
    IF bytes.err # NoErr THEN [ret |-> NilSlice, err |-> bytes.err]
    ELSE CASE encoding = "base64" -> WrapDecoded(decodeB64LayerData(bytes.data))
           [] encoding = "csv" -> WrapDecoded(decodeCSVLayerData(bytes.data))
           [] OTHER -> [ret |-> NilSlice, err |-> ErrUnsupportedEncoding]

\* the decoding half of Layer.TileGlobalRefs, reached when the layer has
\* neither structured references nor a cached list: [ret, err]
DecodeRefs(d) == DecodeBytes(d.Encoding, Bytes(d))

\* the return of Layer.TileGlobalRefs after decoding gave r:
\* [ret, err, cache, decoded]
CacheRefs(r, cached) ==
    IF r.err # NoErr
    THEN [ret |-> NilSlice, err |-> r.err, cache |-> cached, decoded |-> TRUE]
    ELSE [ret |-> r.ret, err |-> NoErr, cache |-> r.ret, decoded |-> TRUE]

\* fault: the structured list is looked at only when the layer has no
\* encoding tag
TileGlobalRefsTagFirst(d, cached) ==
    IF d.Encoding = "" /\ Len(d.TileGlobalRefs.elems) > 0
    THEN [ret |-> d.TileGlobalRefs, err |-> NoErr, cache |-> cached, decoded |-> FALSE]
    ELSE IF ~cached.isNil
    THEN [ret |-> cached, err |-> NoErr, cache |-> cached, decoded |-> FALSE]
    ELSE CacheRefs(DecodeRefs(d), cached)

\* Layer.TileGlobalRefs on a layer with data d and cache cached:
\* [ret, err, cache, decoded], cache being l.tileGlobalRefs after the call and
\* decoded telling whether the call fetched and decoded the payload
TileGlobalRefs(d, cached) ==
    IF Len(d.TileGlobalRefs.elems) > 0
    THEN [ret |-> d.TileGlobalRefs, err |-> NoErr, cache |-> cached, decoded |-> FALSE]
    ELSE IF ~cached.isNil
    THEN [ret |-> cached, err |-> NoErr, cache |-> cached, decoded |-> FALSE]
    ELSE CacheRefs(DecodeRefs(d), cached)

\* fault: the definitions resolved before the failing cell are cached
TileDefsResolvedCachesPartial(g, r, defs, sorted) ==
    [tds |-> r.tds, err |-> r.err, refs |-> g.cache, defs |-> r.tds,
     tss |-> sorted, decoded |-> g.decoded, resolved |-> TRUE]

\* the end of Layer.TileDefs, g being what TileGlobalRefs returned and r what
\* the resolving loop returned
TileDefsResolved(g, r, defs, sorted) ==
    IF r.err # NoErr
    THEN [tds |-> r.tds, err |-> r.err, refs |-> g.cache, defs |-> defs,
          tss |-> sorted, decoded |-> g.decoded, resolved |-> TRUE]
    ELSE [tds |-> r.tds, err |-> NoErr, refs |-> g.cache, defs |-> r.tds,
          tss |-> sorted, decoded |-> g.decoded, resolved |-> TRUE]

\* fault: the collection is sorted before the error of the TileGlobalRefs
\* call is looked at
TileDefsWithRefsSortsFirst(g, defs, arr, tss, sorted) ==
    IF g.err # NoErr
    THEN [tds |-> NilSlice, err |-> g.err, refs |-> g.cache, defs |-> defs,
          tss |-> sorted, decoded |-> g.decoded, resolved |-> FALSE]
    ELSE TileDefsResolved(g, ResolveFrom(g.ret.elems, sorted, arr, 1, NilSlice),
                          defs, sorted)

\* Layer.TileDefs from the return of its TileGlobalRefs call, g
TileDefsWithRefs(g, defs, arr, tss, sorted) ==
    IF g.err # NoErr
    THEN [tds |-> NilSlice, err |-> g.err, refs |-> g.cache, defs |-> defs,
          tss |-> tss, decoded |-> g.decoded, resolved |-> FALSE]
    ELSE TileDefsResolved(g, ResolveFrom(g.ret.elems, sorted, arr, 1, NilSlice),
                          defs, sorted)

\* fault: the cached definitions are not looked at
TileDefsNoCache(d, refs, defs, arr, tss, sorted) ==
    TileDefsWithRefs(TileGlobalRefs(d, refs), defs, arr, tss, sorted)

\* Layer.TileDefs(tss) on a layer with data d and caches refs and defs, tss
\* being the caller's array arr and sorted an order sort.Sort may leave it in:
\* [tds, err, refs, defs, tss, decoded, resolved], refs and defs the caches
\* and tss the array after the call, resolved telling whether the call sorted
\* the array and ran the resolving loop
TileDefs(d, refs, defs, arr, tss, sorted) ==
    IF ~defs.isNil
    THEN [tds |-> defs, err |-> NoErr, refs |-> refs, defs |-> defs,
          tss |-> tss, decoded |-> FALSE, resolved |-> FALSE]
    ELSE TileDefsWithRefs(TileGlobalRefs(d, refs), defs, arr, tss, sorted)

(* ------------------------------ inputs --------------------------------- *)
\* GlobalIDs: an empty cell with all three flip bits, an id below every
\* tile-set, and ids with flip bits in and above the tile-sets
GidEmptyFlipped == U32(57344, 0)    \* 0xE0000000
GidOne == U32(0, 1)                 \* 0x00000001
GidTwoH == U32(32768, 2)            \* 0x80000002
GidFarD == U32(8193, 0)             \* 0x20010000
GidHighV == U32(16385, 9)           \* 0x40010009

GlobalIDs == {GidEmptyFlipped, GidOne, GidTwoH, GidFarD, GidHighV}

\* tile-sets: two with the same first global id, one far above them; bare id
\* 2 is tile 0 of A, which has metadata, and bare ids 3, 65536 and 65545 lie
\* beyond the declared TileCount of the tile-set that owns them
TileSetA == TileSet("A", U32(0, 2), 1, <<U32(0, 0)>>)
TileSetB == TileSet("B", U32(1, 1), 8, <<U32(0, 1)>>)
TileSetC == TileSet("C", U32(0, 2), 0, <<>>)

TileSets == {TileSetA, TileSetB, TileSetC}

\* the sequences of length at most n of distinct elements of S
DistinctSeqs(S, n) ==
    UNION {{q \in [1..k -> S] : \A i, j \in 1..k : i # j => q[i] # q[j]} : k \in 0..n}

\* the sequences of length at most n of elements of S
SeqsUpTo(S, n) == UNION {[1..k -> S] : k \in 0..n}

Collections == DistinctSeqs(TileSets, MaxTileSets)

\* the caller's arrays of tile-sets
Arrays == {1, 2}

\* payloads, as the bytes of the text between <data> and </data>
PayBlank == <<32, 10>>
\* " \nAgAAgAMAAAA=\n": the bytes 02 00 00 80 03 00 00 00
PayTwoWords == <<32, 10, 65, 103, 65, 65, 103, 65, 77, 65, 65, 65, 65, 61, 10>>
\* "AgAAgAMAAA==": the seven bytes 02 00 00 80 03 00 00
PaySevenBytes == <<65, 103, 65, 65, 103, 65, 77, 65, 65, 65, 61, 61>>
\* "A?AA": no base64
PayCorrupt == <<65, 63, 65, 65>>
\* "eAEBBAD7/wIAAIAAjACD": the zlib stream of 02 00 00 80
PayZlib == <<101, 65, 69, 66, 66, 65, 68, 55, 47, 119, 73, 65, 65, 73, 65, 65, 106, 65, 67, 68>>
\* "eAEBBAD7/wIAAIAAjACC": the same stream with a wrong checksum
PayZlibBadSum == <<101, 65, 69, 66, 66, 65, 68, 55, 47, 119, 73, 65, 65, 73, 65, 65, 106, 65, 67, 67>>
\* "eAEBBgD5/wIAAIADAAGYAIY=": the zlib stream of 02 00 00 80 03 00
PayZlibSixBytes == <<101, 65, 69, 66, 66, 103, 68, 53, 47, 119, 73, 65, 65, 73, 65, 68, 65, 65, 71, 89, 65, 73, 89, 61>>
\* "H4sIAAAAAAAEAwEEAPv/AgAAgLeU9WYEAAAA": the gzip member of 02 00 00 80
PayGzip == <<72, 52, 115, 73, 65, 65, 65, 65, 65, 65, 65, 69, 65, 119, 69, 69, 65, 80, 118, 47, 65, 103, 65, 65, 103, 76, 101, 85, 57, 87, 89, 69, 65, 65, 65, 65>>
\* "1, 2,3 ,4"
PayCsvFour == <<49, 44, 32, 50, 44, 51, 32, 44, 52>>
\* "1,x,3"
PayCsvLetter == <<49, 44, 120, 44, 51>>
\* "4294967295"
PayCsvMax == <<52, 50, 57, 52, 57, 54, 55, 50, 57, 53>>
\* "4294967296"
PayCsvOver == <<52, 50, 57, 52, 57, 54, 55, 50, 57, 54>>
\* "-1"
PayCsvNegative == <<45, 49>>
\* "2,,3"
PayCsvGap == <<50, 44, 44, 51>>
\* "0, 3"
PayCsvZero == <<48, 44, 32, 51>>
\* "\n007,65536\n"
PayCsvLines == <<10, 48, 48, 55, 44, 54, 53, 53, 51, 54, 10>>

Payloads ==
    {<<>>, PayBlank, PayTwoWords, PaySevenBytes, PayCorrupt, PayZlib, PayZlibBadSum,
     PayZlibSixBytes, PayGzip, PayCsvFour, PayCsvLetter, PayCsvMax, PayCsvOver,
     PayCsvNegative, PayCsvGap, PayCsvZero, PayCsvLines}

Encodings == {"", "base64", "csv", "json"}

Compressions == {"", "zlib", "gzip", "lzma"}

\* a layer's <data> with <tile> children: the references, in document order
StructuredData(e, c, gids, raw) ==
    Data(e, c, SliceOf([i \in 1..Len(gids) |-> TileGlobalRef(gids[i])]), raw)

(* ---------------------------- state machine ---------------------------- *)
VARIABLES
    RawData,         \* Layer.RawData
    tileGlobalRefs,  \* Layer.tileGlobalRefs, the cache of TileGlobalRefs
    tileDefs,        \* Layer.tileDefs, the cache of TileDefs
    heap,            \* the caller's arrays of tile-sets, by array
    op,              \* the last call: "new", "TileGlobalRefs" or "TileDefs"
    arg,             \* the array the last TileDefs call was given, else 0
    argBefore,       \* what that array held when the call began
    retRefs,         \* the references the last TileGlobalRefs call returned
    retDefs,         \* the definitions the last TileDefs call returned
    err,             \* the error the last call returned
    decoded,         \* whether the last call fetched and decoded the payload
    resolved,        \* whether the last call sorted and resolved tile-sets
    refsDone,        \* whether a TileGlobalRefs call has succeeded
    defsDone,        \* whether a TileDefs call has succeeded
    defsFailed       \* whether a TileDefs call has failed in its resolving loop

vars ==
    <<RawData, tileGlobalRefs, tileDefs, heap, op, arg, argBefore, retRefs,
      retDefs, err, decoded, resolved, refsDone, defsDone, defsFailed>>

\* a layer as xml decoding leaves it: both caches nil, no call made yet
NewLayer(d, h) ==
    /\ RawData = d
    /\ tileGlobalRefs = NilSlice
    /\ tileDefs = NilSlice
    /\ heap = h
    /\ op = "new"
    /\ arg = 0
    /\ argBefore = <<>>
    /\ retRefs = NilSlice
    /\ retDefs = NilSlice
    /\ err = NoErr
    /\ decoded = FALSE
    /\ resolved = FALSE
    /\ refsDone = FALSE
    /\ defsDone = FALSE
    /\ defsFailed = FALSE

\* layers for the resolving stage: structured references of any content, and
\* a few encoded payloads
ResolveLayers ==
    {StructuredData("", "", gids, <<>>) : gids \in SeqsUpTo(GlobalIDs, MaxRefs)}
    \cup {Data("base64", "", NilSlice, raw) : raw \in {<<>>, PayTwoWords, PaySevenBytes}}
    \cup {Data("base64", "zlib", NilSlice, PayZlib), Data("csv", "", NilSlice, PayCsvZero)}

\* what the caller's second array may hold
SpareCollections == {<<>>, <<TileSetB, TileSetA>>}

Init ==
    \E d \in ResolveLayers : \E c \in Collections : \E s \in SpareCollections :
        NewLayer(d, [a \in Arrays |-> IF a = 1 THEN c ELSE s])

\* layers for the decoding stage: every tag with every payload, and structured
\* references beside every tag and some payloads
PayloadLayers ==
    {Data(e, c, NilSlice, raw) : e \in Encodings, c \in Compressions, raw \in Payloads}
    \cup {StructuredData(e, c, gids, raw) :
              e \in Encodings, c \in Compressions,
              gids \in SeqsUpTo({GidOne, GidTwoH}, MaxRefs) \ {<<>>},
              raw \in {<<>>, PaySevenBytes, PayCsvFour}}

InitPayload ==
    \E d \in PayloadLayers :
        NewLayer(d, [a \in Arrays |-> IF a = 1 THEN <<TileSetB, TileSetA>> ELSE <<>>])

\* the state after a TileGlobalRefs call that returned r
ReturnTileGlobalRefs(r) ==
    /\ tileGlobalRefs' = r.cache
    /\ op' = "TileGlobalRefs"
    /\ arg' = 0
    /\ argBefore' = <<>>
    /\ retRefs' = r.ret
    /\ retDefs' = NilSlice
    /\ err' = r.err
    /\ decoded' = r.decoded
    /\ resolved' = FALSE
    /\ refsDone' = (refsDone \/ r.err = NoErr)

\* l.TileGlobalRefs()
CallTileGlobalRefs ==
    /\ ReturnTileGlobalRefs(TileGlobalRefs(RawData, tileGlobalRefs))
    /\ UNCHANGED <<RawData, tileDefs, heap, defsDone, defsFailed>>

\* the state after a TileDefs call on array a that returned r
ReturnTileDefs(a, r) ==
    /\ tileGlobalRefs' = r.refs
    /\ tileDefs' = r.defs
    /\ heap' = [heap EXCEPT ![a] = r.tss]
    /\ op' = "TileDefs"
    /\ arg' = a
    /\ argBefore' = heap[a]
    /\ retRefs' = NilSlice
    /\ retDefs' = r.tds
    /\ err' = r.err
    /\ decoded' = r.decoded
    /\ resolved' = r.resolved
    /\ refsDone' = (refsDone \/ r.resolved)
    /\ defsDone' = (defsDone \/ r.err = NoErr)
    /\ defsFailed' = (defsFailed \/ (r.resolved /\ r.err # NoErr))
    /\ UNCHANGED RawData

\* l.TileDefs(tss), tss being the caller's array a
CallTileDefs(a) ==
    \E sorted \in SortOutcomes(heap[a]) :
        ReturnTileDefs(a, TileDefs(RawData, tileGlobalRefs, tileDefs, a, heap[a], sorted))

Next == CallTileGlobalRefs \/ \E a \in Arrays : CallTileDefs(a)

Spec == Init /\ [][Next]_vars

SpecPayload == InitPayload /\ [][Next]_vars

(* ------------------------------ properties ----------------------------- *)
\* the value of a uint32 below 2^31
Val(w) == w.hi * Half + w.lo

\* the value of the low 29 bits of a GlobalID
BareVal(g) == (g.hi % 8192) * Half + g.lo

\* the references the layer hands to TileDefs: the structured list if there
\* is one, else the decoded list
CallRefs ==
    IF Len(RawData.TileGlobalRefs.elems) > 0 THEN RawData.TileGlobalRefs.elems
    ELSE tileGlobalRefs.elems

\* the last call was a TileDefs call that did not return the cached list
Computed == op = "TileDefs" /\ resolved

DistinctFirsts(c) ==
    \A i, j \in 1..Len(c) : i # j => c[i].FirstGlobalID # c[j].FirstGlobalID

\* c[k] starts at or below the bare id of g
StartsAtOrBelow(c, k, g) == Val(c[k].FirstGlobalID) <= BareVal(g)

\* C1: when TileDefs is given a collection with distinct first global ids, in
\* any order, every reference with a non-zero bare id gets the tile-set of the
\* collection with the greatest first global id at or below the bare id,
\* whatever that tile-set's TileCount; the call fails at a reference only if
\* no tile-set starts at or below its bare id.
C1_OwnerIsGreatestBelow ==
    (Computed /\ DistinctFirsts(argBefore)) =>
        /\ \A i \in 1..Len(retDefs.elems) :
               LET g == CallRefs[i].GlobalID
                   d == retDefs.elems[i]
               IN  BareVal(g) # 0 =>
                       /\ ~d.Nil
                       /\ d.TileSet.arr = arg
                       /\ d.TileSet.idx \in 1..Len(heap[arg])
                       /\ \E k \in 1..Len(argBefore) :
                              /\ argBefore[k] = heap[arg][d.TileSet.idx]
                              /\ StartsAtOrBelow(argBefore, k, g)
                              /\ \A m \in 1..Len(argBefore) :
                                     StartsAtOrBelow(argBefore, m, g) =>
                                         Val(argBefore[m].FirstGlobalID)
                                             <= Val(argBefore[k].FirstGlobalID)
        /\ err # NoErr =>
               \A m \in 1..Len(argBefore) :
                   ~StartsAtOrBelow(argBefore, m, CallRefs[Len(retDefs.elems) + 1].GlobalID)

\* a call on an unsorted collection of two tile-sets gave a reference the
\* highest tile-set, for a bare id beyond that tile-set's TileCount
C1_Witness ==
    /\ Computed
    /\ Len(argBefore) = 2
    /\ DistinctFirsts(argBefore)
    /\ argBefore # heap[arg]
    /\ \E i \in 1..Len(retDefs.elems) :
           LET d == retDefs.elems[i]
           IN  /\ ~d.Nil
               /\ d.TileSet.idx = 2
               /\ BareVal(d.GlobalID)
                      >= Val(heap[arg][2].FirstGlobalID) + heap[arg][2].TileCount

\* C2: a TileDefs call that meets a reference with a non-zero bare id below
\* every tile-set of the collection fails with the ErrNoSuitableTileSet value.
C2_FailsWithErrNoSuitableTileSet ==
    (/\ Computed
     /\ \E i \in 1..Len(CallRefs) :
            /\ BareVal(CallRefs[i].GlobalID) # 0
            /\ \A m \in 1..Len(argBefore) :
                   ~StartsAtOrBelow(argBefore, m, CallRefs[i].GlobalID))
        => err = ErrNoSuitableTileSet

\* a successful TileDefs call returns one definition per reference, in order
C3_OnePerReference ==
    (op = "TileDefs" /\ err = NoErr) =>
        /\ Len(retDefs.elems) = Len(CallRefs)
        /\ \A i \in 1..Len(CallRefs) :
               IF BareVal(CallRefs[i].GlobalID) = 0 THEN retDefs.elems[i].Nil
               ELSE retDefs.elems[i].GlobalID = CallRefs[i].GlobalID

\* C3: TileDefs returns one definition per reference, in order, or else an
\* error and no definition at all.
C3_NoPartialSuccess ==
    /\ C3_OnePerReference
    /\ (op = "TileDefs" /\ err # NoErr) => retDefs = NilSlice

\* C4: once a call has succeeded, no later call decodes the payload again,
\* and once a TileDefs call has succeeded, no later call resolves again.
C4_ComputedAtMostOnce ==
    [][(refsDone => ~decoded') /\ (defsDone => ~resolved')]_vars

\* C5: every reference with bare id 0 yields the nil definition (Nil set, no
\* tile-set, no tile, zero ID, no flip), whatever its flip bits and whatever
\* the collection, and a failing call never fails at such a reference.
C5_EmptyCellIsNil ==
    Computed =>
        /\ \A i \in 1..Len(retDefs.elems) :
               LET d == retDefs.elems[i]
               IN  BareVal(CallRefs[i].GlobalID) = 0 =>
                       /\ d.Nil
                       /\ d.TileSet.arr = 0
                       /\ d.Tile.idx = 0
                       /\ d.ID = [hi |-> 0, lo |-> 0]
                       /\ ~d.HorizontallyFlipped
                       /\ ~d.VerticallyFlipped
                       /\ ~d.DiagonallyFlipped
        /\ err # NoErr =>
               /\ Len(retDefs.elems) < Len(CallRefs)
               /\ BareVal(CallRefs[Len(retDefs.elems) + 1].GlobalID) # 0

\* a call on an empty collection succeeded on a flipped empty cell
C5_Witness ==
    /\ Computed
    /\ heap[arg] = <<>>
    /\ err = NoErr
    /\ \E i \in 1..Len(retDefs.elems) :
           CallRefs[i].GlobalID = GidEmptyFlipped /\ retDefs.elems[i].Nil

\* bit k (29, 30 or 31) of a GlobalID
FlagBit(g, k) == (g.hi \div (IF k = 31 THEN 32768 ELSE IF k = 30 THEN 16384 ELSE 8192)) % 2 = 1

\* 32-bit patterns around the flag bits
SampleIDs ==
    {U32(h, l) : h \in {0, 8191, 8192, 16384, 32768, 40961, 57344, 65535},
                 l \in {0, 65535}}

\* the codec agrees with the bits of g
CodecOf(g) ==
    /\ BareID(g) = [hi |-> g.hi % 8192, lo |-> g.lo]
    /\ IsFlippedHorizontally(g) = FlagBit(g, 31)
    /\ IsFlippedVertically(g) = FlagBit(g, 30)
    /\ IsFlippedDiagonally(g) = FlagBit(g, 29)

\* C6: BareID clears bits 31, 30 and 29 and the three IsFlipped methods are
\* those bits; every non-nil definition TileDefs produces carries the
\* reference's GlobalID and flip booleans equal to its three bits.
C6_FlagsAndBareID ==
    /\ \A g \in SampleIDs : CodecOf(g)
    /\ \A i \in 1..Len(CallRefs) : CodecOf(CallRefs[i].GlobalID)
    /\ Computed =>
           \A i \in 1..Len(retDefs.elems) :
               LET d == retDefs.elems[i]
               IN  ~d.Nil =>
                       /\ d.GlobalID = CallRefs[i].GlobalID
                       /\ d.HorizontallyFlipped = FlagBit(d.GlobalID, 31)
                       /\ d.VerticallyFlipped = FlagBit(d.GlobalID, 30)
                       /\ d.DiagonallyFlipped = FlagBit(d.GlobalID, 29)

\* a call produced definitions flipped vertically only and diagonally only
C6_Witness ==
    /\ Computed
    /\ \E i, j \in 1..Len(retDefs.elems) :
           /\ retDefs.elems[i].GlobalID = GidHighV
           /\ retDefs.elems[i].VerticallyFlipped
           /\ ~retDefs.elems[i].DiagonallyFlipped
           /\ retDefs.elems[j].GlobalID = GidFarD
           /\ retDefs.elems[j].DiagonallyFlipped

\* C7: every non-nil definition TileDefs returns has ID = bare id - first
\* global id of its tile-set, as integers, the bare id being at least the
\* first global id: the uint32 subtraction does not wrap.
C7_TileIDNeverWraps ==
    op = "TileDefs" =>
        \A i \in 1..Len(retDefs.elems) :
            LET d == retDefs.elems[i]
                first == heap[d.TileSet.arr][d.TileSet.idx].FirstGlobalID
            IN  ~d.Nil =>
                    /\ first.hi < 8192
                    /\ Val(first) <= BareVal(d.GlobalID)
                    /\ d.ID.hi < 8192
                    /\ Val(d.ID) = BareVal(d.GlobalID) - Val(first)

\* a definition whose subtraction borrows from the high half: 65536 - 2
C7_Witness ==
    /\ op = "TileDefs"
    /\ \E i \in 1..Len(retDefs.elems) :
           /\ retDefs.elems[i].GlobalID = GidFarD
           /\ retDefs.elems[i].ID = [hi |-> 0, lo |-> 65534]

\* the layer has structured references
Structured == Len(RawData.TileGlobalRefs.elems) > 0

\* the errors of the payload path
BlobErrors ==
    {ErrUnsupportedEncoding, ErrUnsupportedCompression, ErrorfNotDivisibleBy4,
     ErrParseUint, ErrBase64, ErrUnexpectedEOF}

\* C8: a layer with a non-empty structured reference list returns exactly
\* that list from TileGlobalRefs, whatever its encoding tag, compression tag
\* and payload are, without decoding and without any error of the payload
\* path, also when TileGlobalRefs is called by TileDefs.
C8_StructuredWins ==
    Structured =>
        /\ op = "TileGlobalRefs" =>
               /\ retRefs = RawData.TileGlobalRefs
               /\ err = NoErr
        /\ op = "TileDefs" => err \notin BlobErrors
        /\ ~decoded

\* TileGlobalRefs returned the structured list of a layer whose tags and
\* payload are all invalid
C8_Witness ==
    /\ Structured
    /\ op = "TileGlobalRefs"
    /\ RawData.Encoding = "json"
    /\ RawData.Compression = "lzma"
    /\ RawData.RawBytes = PaySevenBytes
    /\ Len(retRefs.elems) = MaxRefs

\* C9: on a layer without structured references whose encoding tag is
\* neither base64 nor csv, TileGlobalRefs and TileDefs fail with
\* ErrUnsupportedEncoding, whatever the payload and the compression tag
\* are, return nothing and leave both caches unset.
C9_UnsupportedEncoding ==
    (~Structured /\ RawData.Encoding \notin {"base64", "csv"} /\ op # "new") =>
        /\ err = ErrUnsupportedEncoding
        /\ retRefs = NilSlice
        /\ retDefs = NilSlice
        /\ tileGlobalRefs.isNil
        /\ tileDefs.isNil

\* TileDefs failed on a layer with the empty encoding tag and a payload that
\* is valid csv
C9_Witness ==
    /\ ~Structured
    /\ op = "TileDefs"
    /\ RawData.Encoding = ""
    /\ RawData.RawBytes = PayCsvFour
    /\ err = ErrUnsupportedEncoding

\* C10: on a base64 layer without structured references a call fails with
\* ErrUnsupportedCompression exactly when the compression tag is none of
\* "", zlib and gzip; on a csv layer TileGlobalRefs returns what it returns
\* with the empty compression tag.
C10_UnsupportedCompression ==
    (~Structured /\ op # "new") =>
        /\ RawData.Encoding = "base64" =>
               (err = ErrUnsupportedCompression
                    <=> RawData.Compression \notin {"", "zlib", "gzip"})
        /\ RawData.Encoding = "csv" =>
               /\ err # ErrUnsupportedCompression
               /\ op = "TileGlobalRefs" =>
                      [ret |-> retRefs, err |-> err]
                          = DecodeRefs([RawData EXCEPT !.Compression = ""])

\* a base64 layer with an unknown compression tag failed although its
\* payload is sound
C10_Witness ==
    /\ ~Structured
    /\ op = "TileGlobalRefs"
    /\ RawData.Encoding = "base64"
    /\ RawData.Compression = "lzma"
    /\ RawData.RawBytes = PayTwoWords
    /\ err = ErrUnsupportedCompression

\* C11: on a base64 layer without structured references whose payload
\* decodes (and decompresses) to the bytes b, TileGlobalRefs fails with the
\* length error, returns nothing and caches nothing when Len(b) is not
\* divisible by 4, and otherwise returns Len(b)/4 references, the k-th being
\* the little-endian word of the k-th group of four bytes.
C11_Base64Words ==
    (/\ ~Structured
     /\ op = "TileGlobalRefs"
     /\ RawData.Encoding = "base64"
     /\ Bytes(RawData).err = NoErr) =>
        LET b == Bytes(RawData).data
            n == Len(b)
        IN  IF n % 4 # 0
            THEN /\ err = ErrorfNotDivisibleBy4
                 /\ retRefs = NilSlice
                 /\ tileGlobalRefs.isNil
            ELSE /\ err = NoErr
                 /\ Len(retRefs.elems) = n \div 4
                 /\ \A k \in 0..((n \div 4) - 1) :
                        retRefs.elems[k + 1].GlobalID
                            = [hi |-> b[4 * k + 3] + 256 * b[4 * k + 4],
                               lo |-> b[4 * k + 1] + 256 * b[4 * k + 2]]

\* the payload of the bytes 02 00 00 80 03 00 00 00 gave the references
\* 0x80000002 and 3, in that order
C11_Witness ==
    /\ ~Structured
    /\ op = "TileGlobalRefs"
    /\ RawData.Encoding = "base64"
    /\ RawData.Compression = ""
    /\ RawData.RawBytes = PayTwoWords
    /\ err = NoErr
    /\ retRefs.elems = <<TileGlobalRef(U32(32768, 2)), TileGlobalRef(U32(0, 3))>>

RECURSIVE StripZeros(_)
\* a digit string without its leading zeros, one digit at least
StripZeros(f) == IF Len(f) > 1 /\ Head(f) = 48 THEN StripZeros(Tail(f)) ELSE f

\* a digit string without leading zeros that denotes at most 2^32-1
AtMostMax(g) ==
    \/ Len(g) < 10
    \/ /\ Len(g) = 10
       /\ \/ g = PayCsvMax
          \/ \E i \in 1..10 :
                 /\ g[i] < PayCsvMax[i]
                 /\ \A j \in 1..(i - 1) : g[j] = PayCsvMax[j]

\* a field that is a base-10 unsigned 32-bit integer: not empty, digits only
\* (so no sign), in range
ValidField(f) ==
    /\ f # <<>>
    /\ \A i \in 1..Len(f) : f[i] \in 48..57
    /\ AtMostMax(StripZeros(f))

RECURSIVE FormatUint(_)
\* the decimal digits of a uint32
FormatUint(w) ==
    LET rem == (w.hi % 10) * Half + w.lo
        q == [hi |-> w.hi \div 10, lo |-> rem \div 10]
    IN  IF q = Zero32 THEN <<48 + (rem % 10)>>
        ELSE FormatUint(q) \o <<48 + (rem % 10)>>

\* the fields of a csv payload, each without its surrounding white space
TrimmedFields(raw) ==
    LET strs == Split(raw, Comma)
    IN  [i \in 1..Len(strs) |-> TrimSpace(strs[i])]

Ascending(c) ==
    \A i, j \in 1..Len(c) :
        i < j => ~Less32(c[j].FirstGlobalID, c[i].FirstGlobalID)

\* c holds the elements of d, each as often as d does, none altered
IsPermutation(c, d) ==
    /\ Len(c) = Len(d)
    /\ \E p \in [1..Len(d) -> 1..Len(d)] :
           /\ \A i, j \in 1..Len(d) : i # j => p[i] # p[j]
           /\ \A i \in 1..Len(d) : c[i] = d[p[i]]

\* C13 as stated: after any TileDefs call the passed collection is in
\* ascending order of first global id and a permutation of what was passed
\* in, and a collection passed in ascending order keeps its order.
C13_EveryCallSorts ==
    op = "TileDefs" =>
        /\ Ascending(heap[arg])
        /\ IsPermutation(heap[arg], argBefore)
        /\ Ascending(argBefore) => heap[arg] = argBefore

\* C13, amended: a TileDefs call leaves in the passed collection a
\* permutation of what was passed in and touches no other collection; the
\* collection is in ascending order of first global id after a call that
\* found no cached definitions and whose TileGlobalRefs call succeeded, and
\* is exactly as it was passed after any other call; a collection passed in
\* ascending order with pairwise distinct first global ids keeps its order.
C13_ResolvingCallSorts ==
    [][op' = "TileDefs" =>
           /\ IsPermutation(heap'[arg'], heap[arg'])
           /\ \A b \in Arrays \ {arg'} : heap'[b] = heap[b]
           /\ IF tileDefs.isNil /\ err' \in {NoErr, ErrorfNoSuitableTileSet}
              THEN Ascending(heap'[arg'])
              ELSE heap'[arg'] = heap[arg']
           /\ (Ascending(heap[arg']) /\ DistinctFirsts(heap[arg']))
                  => heap'[arg'] = heap[arg']]_vars

\* a call was passed a collection in descending order and left it ascending
C13_Witness ==
    /\ op = "TileDefs"
    /\ resolved
    /\ argBefore = <<TileSetB, TileSetA>>
    /\ heap[arg] = <<TileSetA, TileSetB>>

\* C14: a TileDefs call that succeeds with a non-empty result leaves that
\* result in the layer's cache, no call changes a cache that is set, and a
\* TileDefs call on a layer whose cache is set returns the cached result and
\* no error and leaves every collection, the passed one included, exactly as
\* it was; so every call after the first non-empty success returns that
\* result, whatever collection it is passed.
C14_CachedDefsWin ==
    [][/\ (op' = "TileDefs" /\ err' = NoErr /\ Len(retDefs'.elems) > 0)
              => tileDefs' = retDefs'
       /\ ~tileDefs.isNil =>
              /\ tileDefs' = tileDefs
              /\ Len(tileDefs.elems) > 0
              /\ op' = "TileDefs" =>
                     /\ retDefs' = tileDefs
                     /\ err' = NoErr
                     /\ heap' = heap]_vars

\* a call passed a second collection, in descending order, returned the
\* definitions resolved against the first one and left the second as it was
C14_Witness ==
    /\ op = "TileDefs"
    /\ ~resolved
    /\ err = NoErr
    /\ arg = 2
    /\ argBefore = <<TileSetB, TileSetA>>
    /\ heap[2] = <<TileSetB, TileSetA>>
    /\ retDefs = tileDefs
    /\ \E i \in 1..Len(retDefs.elems) :
           ~retDefs.elems[i].Nil /\ retDefs.elems[i].TileSet.arr = 1

\* the collection c has, for every reference with a non-zero bare id, a
\* tile-set that starts at or below it
Covers(c, refs) ==
    \A i \in 1..Len(refs) :
        BareVal(refs[i].GlobalID) # 0 =>
            \E k \in 1..Len(c) : StartsAtOrBelow(c, k, refs[i].GlobalID)

\* C15 as stated: a failed TileGlobalRefs leaves the reference cache unset;
\* a TileDefs that fails on an unresolvable cell leaves the definition cache
\* unset, the reference cache set and the passed collection sorted; and a
\* later TileDefs call with a covering collection resolves again and
\* succeeds with one definition per reference.
C15_FailureLeavesRefsCached ==
    [][/\ (op' = "TileGlobalRefs" /\ err' # NoErr) => tileGlobalRefs'.isNil
       /\ (op' = "TileDefs" /\ err' = ErrorfNoSuitableTileSet) =>
              /\ tileDefs'.isNil
              /\ ~tileGlobalRefs'.isNil
              /\ Ascending(heap'[arg'])
       /\ (defsFailed /\ tileDefs.isNil /\ op' = "TileDefs"
               /\ Covers(heap[arg'], CallRefs)) =>
              /\ err' = NoErr
              /\ resolved'
              /\ Len(retDefs'.elems) = Len(CallRefs)
              /\ tileDefs' = retDefs']_vars

\* C15, amended: as stated, except that after a TileDefs call has failed on
\* an unresolvable cell the reference cache is set only on a layer whose
\* references were decoded from its payload; on a layer with a structured
\* reference list it stays unset, the list itself being returned each time.
\* The retry does not decode the payload again.
C15_FailureCachesNothingNew ==
    [][/\ (op' = "TileGlobalRefs" /\ err' # NoErr) => tileGlobalRefs'.isNil
       /\ (op' = "TileDefs" /\ err' = ErrorfNoSuitableTileSet) =>
              /\ tileDefs'.isNil
              /\ tileGlobalRefs'.isNil <=> Structured
              /\ Ascending(heap'[arg'])
       /\ (defsFailed /\ tileDefs.isNil /\ op' = "TileDefs"
               /\ Covers(heap[arg'], CallRefs)) =>
              /\ err' = NoErr
              /\ resolved'
              /\ ~decoded'
              /\ Len(retDefs'.elems) = Len(CallRefs)
              /\ tileDefs' = retDefs']_vars

\* on a layer with an encoded payload a TileDefs call failed and a later one,
\* passed the second collection, resolved both cached references
C15_Witness ==
    /\ ~Structured
    /\ defsFailed
    /\ op = "TileDefs"
    /\ arg = 2
    /\ err = NoErr
    /\ resolved
    /\ ~decoded
    /\ Len(retDefs.elems) = 2
    /\ tileDefs = retDefs

====
